---- MODULE Spec2Model ----
(***************************************************************************)
(* Model of dulwich/walk.py: the commit walker (Walker), its priority      *)
(* queue (_CommitTimeQueue) and the acceptance filter.                     *)
(*                                                                         *)
(* Python values are encoded as follows.                                   *)
(*   None / a value v        the sequences << >> / << v >>                 *)
(*   a commit identifier     a natural number; 0 is an identifier the      *)
(*                           object store does not contain                 *)
(*   a path (a str)          a sequence of one-character strings           *)
(*   a set                   a set                                         *)
(*   a list / the heap       a sequence                                    *)
(***************************************************************************)
EXTENDS Integers, Sequences, FiniteSets, TLC

VARIABLES
    store,      \* the object store: commit id -> [parents, commit_time]
    diffs,      \* the diff engine: commit id -> what changes_func returns
    tie,        \* how two commit objects of equal commit time compare
    args,       \* the arguments given to Walker(...)
    pc,         \* "start", "created", "iterating", "exhausted", "raised"
    walker,     \* the Walker's fields
    queue,      \* the _CommitTimeQueue's fields
    results,    \* entries returned by _next in the current iteration
    emitted,    \* commit ids the consumer has received, in order
    error,      \* the exception that reached the caller, None if none
    entries,    \* the WalkEntry objects _next has returned, by commit id
    hist        \* history of the run (observations, not program state)

vars == <<store, diffs, tie, args, pc, walker, queue, results, emitted, error,
          entries, hist>>

----------------------------------------------------------------------------
(* Bounds of the model.                                                    *)

\* commits of the stores with arbitrary parents and times
NumCommits == 3
\* commit times range over 0 .. MaxTime
MaxTime == 2
\* commits of the stores used for path filtering
NumPathCommits == 3

\* the calls of changes() made on one entry
MaxChangesCalls == 2

----------------------------------------------------------------------------
(* Program constants.                                                      *)

ORDER_DATE == "date"

_MAX_EXTRA_COMMITS == 5

CHANGE_ADD == "add"
CHANGE_MODIFY == "modify"
CHANGE_DELETE == "delete"
CHANGE_RENAME == "rename"
CHANGE_COPY == "copy"

RENAME_CHANGE_TYPES == {CHANGE_RENAME, CHANGE_COPY}

\* commits of the stores used for the since boundary: the commits the
\* queue may pop below the boundary, one more that is left in the heap
\* and a parent of that one
NumBoundaryCommits == _MAX_EXTRA_COMMITS + 2

None == << >>

Some(v) == << v >>

Val(o) == o[1]

\* the identifier no store contains
MissingId == 0

----------------------------------------------------------------------------
(* Sequence helpers.                                                       *)

Range(s) == {s[i] : i \in 1..Len(s)}

Reversed(s) == [i \in 1..Len(s) |-> s[Len(s) + 1 - i]]

\* the list is handed over as it is
ReversedList_kept(l) == l

\* reversed(list(results))
ReversedList(l) == Reversed(l)

\* str.startswith
StartsWith(s, p) == Len(p) <= Len(s) /\ SubSeq(s, 1, Len(p)) = p

\* iteration over a set (here: in ascending order)
RECURSIVE SetIter(_)
SetIter(S) ==
    IF S = {} THEN << >>
    ELSE LET m == CHOOSE x \in S : \A y \in S : x <= y
         IN  <<m>> \o SetIter(S \ {m})

----------------------------------------------------------------------------
(* The heap of (-commit_time, commit) tuples.                              *)

\* the earlier commit time first
TupleLess_oldest(a, b) ==
    \/ store[a].commit_time < store[b].commit_time
    \/ /\ store[a].commit_time = store[b].commit_time
       /\ IF tie = "asc" THEN a < b ELSE a > b

\* tuple comparison (-commit_time, commit) < (-commit_time, commit): the
\* later commit time first; equal times fall to the comparison of the two
\* commit objects, a fixed total order walk.py does not choose (tie).
TupleLess(a, b) ==
    \/ store[a].commit_time > store[b].commit_time
    \/ /\ store[a].commit_time = store[b].commit_time
       /\ IF tie = "asc" THEN a < b ELSE a > b

\* heapq.heappush: the heap is kept as the sorted list of its items, so
\* that its head is the item heappop returns.
HeapPush(pq, c) ==
    LET k == Cardinality({i \in 1..Len(pq) : ~TupleLess(c, pq[i])})
    IN  SubSeq(pq, 1, k) \o <<c>> \o SubSeq(pq, k + 1, Len(pq))

\* heapq.heappop: the smallest item and the remaining heap
HeapTop(pq) == Head(pq)

HeapRest(pq) == Tail(pq)

----------------------------------------------------------------------------
(* _CommitTimeQueue                                                        *)

\* an identifier the store does not contain is skipped
_push_skipping(q, commit_id) ==
    IF commit_id \in DOMAIN store
          /\ commit_id \notin q.pq_set /\ commit_id \notin q.done
    THEN [q |-> [q EXCEPT !.pq = HeapPush(q.pq, commit_id),
                          !.pq_set = @ \cup {commit_id}],
          err |-> None]
    ELSE [q |-> q, err |-> None]

\* a commit that is done is pushed again
_push_again(q, commit_id) ==
    IF commit_id \notin DOMAIN store
    THEN [q |-> q, err |-> Some([type |-> "MissingCommitError", arg |-> commit_id])]
    ELSE IF commit_id \notin q.pq_set
         THEN [q |-> [q EXCEPT !.pq = HeapPush(q.pq, commit_id),
                               !.pq_set = @ \cup {commit_id}],
               err |-> None]
         ELSE [q |-> q, err |-> None]

\* _push: the queue afterwards, or the MissingCommitError raised
_push(q, commit_id) ==
    IF commit_id \notin DOMAIN store
    THEN [q |-> q, err |-> Some([type |-> "MissingCommitError", arg |-> commit_id])]
    ELSE IF commit_id \notin q.pq_set /\ commit_id \notin q.done
         THEN [q |-> [q EXCEPT !.pq = HeapPush(q.pq, commit_id),
                               !.pq_set = @ \cup {commit_id}],
               err |-> None]
         ELSE [q |-> q, err |-> None]

\* for commit_id in ids: self._push(commit_id)  -- stops at the first raise
RECURSIVE PushAll(_, _)

\* the loop after one self._push(commit_id) gave r: a raise leaves it
PushRest(r, ids) ==
    IF r.err # None THEN r ELSE PushAll(r.q, ids)

PushAll(q, ids) ==
    IF ids = << >>
    THEN [q |-> q, err |-> None]
    ELSE PushRest(_push(q, Head(ids)), Tail(ids))

\* _CommitTimeQueue.__init__
QueueInit(w) ==
    PushAll([pq |-> << >>, pq_set |-> {}, done |-> {},
             _min_time |-> w.since,
             _extra_commits_left |-> _MAX_EXTRA_COMMITS],
            w.include \o SetIter(w.excluded))

\* the commit is not recorded as done
MarkDone_forgotten(done, sha) == done

\* self._done.add(commit.id)
MarkDone(done, sha) == done \cup {sha}

\* _CommitTimeQueue.next: the while loop, one iteration after the other
\* until the loop is left; s = [q, excluded, h]. The entry returned (None
\* when the loop ends or breaks), the queue, the excluded set and the
\* history afterwards, and the error raised.
RECURSIVE queue_next(_)

\* (_, commit) = heapq.heappop(self._pq); self._pq_set.remove(sha)
HeapPopped(q, sha) ==
    [q EXCEPT !.pq = HeapRest(@), !.pq_set = @ \ {sha}]

\* a commit at the minimum time counts as below it
BelowMinTime_inclusive(q, commit) ==
    q._min_time # None /\ commit.commit_time <= Val(q._min_time)

\* self._min_time is not None and commit.commit_time < self._min_time
BelowMinTime(q, commit) ==
    q._min_time # None /\ commit.commit_time < Val(q._min_time)

\* self._extra_commits_left after the commit: counted down below the
\* minimum time, reset at or above it, untouched without a minimum time
ExtraCommitsLeft(q, below) ==
    IF q._min_time = None THEN q._extra_commits_left
    ELSE IF below THEN q._extra_commits_left - 1
    ELSE _MAX_EXTRA_COMMITS

\* the parents of an excluded commit are not excluded
ExcludedUpdated_kept(excluded, commit, is_excluded) == excluded

\* the parents of every commit are excluded
ExcludedUpdated_always(excluded, commit, is_excluded) ==
    excluded \cup Range(commit.parents)

\* self._excluded.update(commit.parents) for an excluded commit
ExcludedUpdated(excluded, commit, is_excluded) ==
    IF is_excluded THEN excluded \cup Range(commit.parents) ELSE excluded

\* the end of the iteration, the parents pushed with outcome r: the entry
\* is returned unless the commit is excluded
ParentsPushed(r, excluded, h, sha, is_excluded) ==
    IF r.err # None
    THEN [q |-> r.q, excluded |-> excluded, h |-> h,
          entry |-> None, err |-> r.err]
    ELSE IF ~is_excluded
    THEN [q |-> r.q, excluded |-> excluded, h |-> h,
          entry |-> Some(sha), err |-> None]
    ELSE queue_next([q |-> r.q, excluded |-> excluded, h |-> h])

\* the iteration after the counter is set: break when it ran out, else
\* push the parents
Counted(q, excluded, h, sha, is_excluded, below) ==
    IF below /\ q._extra_commits_left = 0
    THEN \* break
         [q |-> q, excluded |-> excluded,
          h |-> [h EXCEPT !.breaks = Append(@, sha)],
          entry |-> None, err |-> None]
    ELSE ParentsPushed(PushAll(q, store[sha].parents), excluded, h, sha,
                       is_excluded)

\* the iteration for a commit that is not done; q is the queue after the
\* pop
Visited(q, excluded, h, sha, is_excluded, below) ==
    Counted([q EXCEPT !.done = MarkDone(@, sha),
                      !._extra_commits_left = ExtraCommitsLeft(q, below)],
            ExcludedUpdated(excluded, store[sha], is_excluded),
            [h EXCEPT !.pops = Append(@, [sha |-> sha,
                                          is_excluded |-> is_excluded,
                                          below |-> below,
                                          left |-> ExtraCommitsLeft(q, below)]),
                      !.below_run = IF below THEN @ + 1 ELSE 0],
            sha, is_excluded, below)

\* the iteration for the commit popped: a commit already done is passed over
PoppedCommit(s, sha) ==
    IF sha \in s.q.done
    THEN queue_next([s EXCEPT !.q = HeapPopped(s.q, sha), !.h.redone = TRUE])
    ELSE Visited(HeapPopped(s.q, sha), s.excluded, s.h, sha,
                 sha \in s.excluded, BelowMinTime(s.q, store[sha]))

queue_next(s) ==
    IF s.q.pq = << >>
    THEN [q |-> s.q, excluded |-> s.excluded, h |-> s.h,
          entry |-> None, err |-> None]
    ELSE PoppedCommit(s, HeapTop(s.q.pq))

----------------------------------------------------------------------------
(* Walker                                                                  *)

\* the separator after the followed path is not looked at
_path_matches_prefix(paths, changed_path) ==
    /\ changed_path # None
    /\ \E followed_path \in paths : StartsWith(Val(changed_path), followed_path)

\* Walker._path_matches (self.paths is a set here, not None)
_path_matches(paths, changed_path) ==
    IF changed_path = None
    THEN FALSE
    ELSE \E followed_path \in paths :
            \/ Val(changed_path) = followed_path
            \/ /\ StartsWith(Val(changed_path), followed_path)
               /\ Val(changed_path)[Len(followed_path) + 1] = "/"

\* Walker._change_matches: the value returned, self.paths afterwards, and
\* the KeyError of set.remove when the path to remove is not in the set
_change_matches(paths, follow, change) ==
    LET old_path == change.old
        new_path == change.new
    IN  IF _path_matches(paths, new_path)
        THEN IF follow /\ change.type \in RENAME_CHANGE_TYPES
             THEN LET added == paths \cup {Val(old_path)}
                  IN  IF Val(new_path) \in added
                      THEN [ret |-> TRUE, paths |-> added \ {Val(new_path)},
                            err |-> None, followed |-> Some(change)]
                      ELSE [ret |-> FALSE, paths |-> added,
                            err |-> Some([type |-> "KeyError",
                                          arg |-> Val(new_path)]),
                            followed |-> Some(change)]
             ELSE [ret |-> TRUE, paths |-> paths, err |-> None,
                   followed |-> None]
        ELSE IF _path_matches(paths, old_path)
        THEN [ret |-> TRUE, paths |-> paths, err |-> None, followed |-> None]
        ELSE [ret |-> FALSE, paths |-> paths, err |-> None, followed |-> None]

\* for change in changes: if self._change_matches(change): return True
RECURSIVE AnyChangeMatches(_, _, _)

\* the loop after one self._change_matches(change) gave r
ChangeMatched(r, follow, changes) ==
    IF r.ret \/ r.err # None
    THEN r
    ELSE AnyChangeMatches(r.paths, follow, changes)

AnyChangeMatches(paths, follow, changes) ==
    IF changes = << >>
    THEN [ret |-> FALSE, paths |-> paths, err |-> None, followed |-> None]
    ELSE ChangeMatched(_change_matches(paths, follow, Head(changes)),
                       follow, Tail(changes))

\* for path_changes in entry.changes(): for change in path_changes: ...
RECURSIVE AnyMergeChangeMatches(_, _, _)

\* the outer loop after the inner loop over one parent's changes gave r
PathChangesMatched(r, follow, lists) ==
    IF r.ret \/ r.err # None
    THEN r
    ELSE AnyMergeChangeMatches(r.paths, follow, lists)

AnyMergeChangeMatches(paths, follow, lists) ==
    IF lists = << >>
    THEN [ret |-> FALSE, paths |-> paths, err |-> None, followed |-> None]
    ELSE PathChangesMatched(AnyChangeMatches(paths, follow, Head(lists)),
                            follow, Tail(lists))

\* WalkEntry.changes as called by the Walker: the diff engine's result
\* for the entry's commit
changes(entry) == diffs[entry]

\* WalkEntry.__init__; computed counts the runs of the diff engine for the
\* entry, calls the calls of changes() and returned is what the last call
\* returned
WalkEntry(commit) ==
    [commit |-> commit, _changes |-> None, computed |-> 0, calls |-> 0,
     returned |-> None]

\* a stored empty list counts as nothing stored
ChangesNotStored_falsy(e) == e._changes = None \/ e._changes = Some(<< >>)

\* self._changes is None
ChangesNotStored(e) == e._changes = None

\* WalkEntry.changes: the entry afterwards and the value returned
WalkEntry_changes(e) ==
    IF ChangesNotStored(e)
    THEN [e |-> [e EXCEPT !._changes = Some(changes(e.commit)),
                          !.computed = @ + 1,
                          !.calls = @ + 1,
                          !.returned = Some(changes(e.commit))],
          value |-> changes(e.commit)]
    ELSE [e |-> [e EXCEPT !.calls = @ + 1, !.returned = e._changes],
          value |-> Val(e._changes)]

\* self.since is not None and commit.commit_time < self.since
BelowSince(w, commit) ==
    w.since # None /\ commit.commit_time < Val(w.since)

\* the upper bound is not applied
AboveUntil_ignored(w, commit) == FALSE

\* the upper bound excludes the bound itself
AboveUntil_strict(w, commit) ==
    w.until # None /\ commit.commit_time >= Val(w.until)

\* self.until is not None and commit.commit_time > self.until
AboveUntil(w, commit) ==
    w.until # None /\ commit.commit_time > Val(w.until)

\* the path filter of _should_return with outcome r: the value returned,
\* self.paths afterwards, the history and the error raised
PathsInspected(w, h, r) ==
    [ret |-> r.ret, paths |-> Some(r.paths),
     h |-> IF r.followed = None THEN h
           ELSE [h EXCEPT !.follows =
                   Append(@, [before |-> Val(w.paths),
                              change |-> Val(r.followed),
                              after |-> r.paths,
                              ret |-> r.ret,
                              err |-> r.err])],
     err |-> r.err]

\* Walker._should_return: whether the value returned is true (None counts
\* as false), self.paths afterwards, the history and the error raised
_should_return(w, h, entry) ==
    LET commit == store[entry]
        keep(b) == [ret |-> b, paths |-> w.paths, h |-> h, err |-> None]
    IN  IF BelowSince(w, commit)
        THEN keep(FALSE)
        ELSE IF AboveUntil(w, commit)
        THEN keep(FALSE)
        ELSE IF w.paths = None
        THEN keep(TRUE)
        ELSE PathsInspected(
               w,
               [h EXCEPT !.diffed =
                  Append(@, [sha |-> entry, num_entries |-> w._num_entries,
                             paths |-> Val(w.paths)])],
               IF Len(commit.parents) > 1
               THEN AnyMergeChangeMatches(Val(w.paths), w.follow,
                                          changes(entry))
               ELSE AnyChangeMatches(Val(w.paths), w.follow, changes(entry)))

\* the cap compared with > instead of >=
AtMaxEntries_late(w) ==
    w.max_entries # None /\ w._num_entries > Val(w.max_entries)

\* max_entries is not None and self._num_entries >= max_entries
AtMaxEntries(w) ==
    w.max_entries # None /\ w._num_entries >= Val(w.max_entries)

\* Walker._next; s = [w, q, h]. The entry returned (None at the end of
\* the walk), the Walker, queue and history afterwards, the error raised.
RECURSIVE _next(_)

\* the loop of _next after self._should_return(entry) gave r for the entry
\* of n: the entry is counted and returned, or the loop goes on
Decided(w, n, r) ==
    IF r.err # None
    THEN [w |-> [w EXCEPT !.paths = r.paths], q |-> n.q, h |-> r.h,
          entry |-> None, err |-> r.err]
    ELSE IF r.ret
    THEN [w |-> [w EXCEPT !.paths = r.paths, !._num_entries = @ + 1],
          q |-> n.q, h |-> r.h, entry |-> n.entry, err |-> None]
    ELSE _next([w |-> [w EXCEPT !.paths = r.paths], q |-> n.q, h |-> r.h])

\* the loop of _next after self._queue.next() gave n: None is returned
\* when the queue gave None
Dequeued(w, n) ==
    IF n.err # None \/ n.entry = None
    THEN [w |-> w, q |-> n.q, h |-> n.h, entry |-> None, err |-> n.err]
    ELSE Decided(w, n, _should_return(w, n.h, Val(n.entry)))

\* the queue shares the Walker's excluded set and updates it
ExcludedShared(w, n) ==
    Dequeued([w EXCEPT !.excluded = n.excluded], n)

_next(s) ==
    IF AtMaxEntries(s.w)
    THEN [w |-> s.w, q |-> s.q, h |-> s.h, entry |-> None, err |-> None]
    ELSE ExcludedShared(s.w, queue_next([q |-> s.q,
                                         excluded |-> s.w.excluded,
                                         h |-> s.h]))

\* Walker.__init__ up to the construction of the queue
WalkerInit(a) ==
    [include |-> a.include,
     excluded |-> a.exclude,
     order |-> a.order,
     reverse |-> a.reverse,
     max_entries |-> a.max_entries,
     paths |-> IF a.paths # {} THEN Some(a.paths) ELSE None,
     rename_detector |-> IF a.follow /\ a.rename_detector = None
                         THEN Some("RenameDetector(store)")
                         ELSE a.rename_detector,
     follow |-> a.follow,
     since |-> a.since,
     until |-> a.until,
     _num_entries |-> 0]

----------------------------------------------------------------------------
(* The operations.                                                         *)

NoWalker == [_num_entries |-> 0]

NoQueue == [pq |-> << >>]

NoHist ==
    [pops |-> << >>, below_run |-> 0, breaks |-> << >>, redone |-> FALSE,
     diffed |-> << >>, follows |-> << >>, raised |-> << >>,
     ended |-> FALSE, iters |-> 0]

Raise(h, e) == [h EXCEPT !.raised = Append(@, [err |-> e, at |-> Len(h.pops)])]

\* every order is taken
UnknownOrder_accepted(order) == FALSE

\* order not in (ORDER_DATE,)
UnknownOrder(order) == order \notin {ORDER_DATE}

\* the Walker with the queue constructed with outcome r
WithQueue(w, r) ==
    IF r.err # None
    THEN [w |-> NoWalker, q |-> NoQueue, err |-> r.err]
    ELSE [w |-> w, q |-> r.q, err |-> None]

\* Walker(store, include, exclude, ...): Walker.__init__, which checks the
\* order and constructs the queue, which pushes the seeds. The Walker
\* and its queue, or the exception raised.
NewWalker(a) ==
    IF UnknownOrder(a.order)
    THEN [w |-> NoWalker, q |-> NoQueue,
          err |-> Some([type |-> "ValueError", arg |-> a.order])]
    ELSE WithQueue(WalkerInit(a), QueueInit(WalkerInit(a)))

\* the caller holds the Walker n.w, or sees the exception n.err
Constructed(n) ==
    /\ walker' = n.w
    /\ queue' = n.q
    /\ error' = n.err
    /\ IF n.err # None
       THEN pc' = "raised" /\ hist' = Raise(hist, n.err)
       ELSE pc' = "created" /\ UNCHANGED hist

Construct ==
    /\ pc = "start"
    /\ Constructed(NewWalker(args))
    /\ UNCHANGED <<store, diffs, tie, args, results, emitted, entries>>

\* Walker.__iter__: results = iter(self._next, None), on a Walker that
\* exists; the entries are pulled by Next
Iter ==
    /\ pc \in {"created", "exhausted"} \/ (pc = "raised" /\ walker # NoWalker)
    /\ pc' = "iterating"
    /\ results' = << >>
    /\ hist' = [hist EXCEPT !.iters = IF @ < 2 THEN @ + 1 ELSE @]
    /\ UNCHANGED <<store, diffs, tie, args, walker, queue, emitted, error,
                   entries>>

\* the WalkEntry for a commit returned by _next: its changes are stored in
\* it if _should_return asked for them
Returned(commit, h) ==
    IF \E i \in 1..Len(h.diffed) : h.diffed[i].sha = commit
    THEN WalkEntry_changes(WalkEntry(commit)).e
    ELSE WalkEntry(commit)

\* the iterator after one call of Walker._next gave r: the entry goes to
\* the consumer (to the list being built when reverse is set); None ends
\* the iteration, and with reverse the list is then handed over reversed
Delivered(r) ==
    /\ walker' = r.w
    /\ queue' = r.q
    /\ IF r.err # None
       THEN /\ pc' = "raised"
            /\ error' = r.err
            /\ hist' = Raise(r.h, r.err)
            /\ UNCHANGED <<results, emitted, entries>>
       ELSE IF r.entry = None
       THEN /\ pc' = "exhausted"
            /\ hist' = [r.h EXCEPT !.ended = TRUE]
            /\ emitted' = IF walker.reverse
                          THEN emitted \o ReversedList(results)
                          ELSE emitted
            /\ UNCHANGED <<results, error, entries>>
       ELSE /\ pc' = "iterating"
            /\ hist' = r.h
            /\ results' = Append(results, Val(r.entry))
            /\ emitted' = IF walker.reverse
                          THEN emitted
                          ELSE Append(emitted, Val(r.entry))
            /\ entries' = entries @@
                             (Val(r.entry) :> Returned(Val(r.entry), r.h))
            /\ UNCHANGED error

\* one call of Walker._next by the iterator
Next_ ==
    /\ pc = "iterating"
    /\ Delivered(_next([w |-> walker, q |-> queue, h |-> hist]))
    /\ UNCHANGED <<store, diffs, tie, args>>

Next == Construct \/ Iter \/ Next_

\* the consumer calls changes() on an entry it has received
Changes ==
    /\ \E c \in DOMAIN entries \cap Range(emitted) :
          /\ entries[c].calls < MaxChangesCalls
          /\ entries' = [entries EXCEPT ![c] = WalkEntry_changes(@).e]
    /\ UNCHANGED <<store, diffs, tie, args, pc, walker, queue, results,
                   emitted, error, hist>>

NextEntries == Construct \/ Iter \/ Next_ \/ Changes

----------------------------------------------------------------------------
(* The stores and arguments of the model.                                  *)

\* parents a commit may have: commit ids are numbered so that parents come
\* before their children, which keeps the graph acyclic; in the kind
\* "broken", commit 1 may name a parent the store does not contain
ParentChoices(kind, i) ==
    {<< >>}
    \cup (IF i > 1 \/ kind = "broken" THEN {<<i - 1>>} ELSE {})
    \cup (IF i > 2 /\ kind # "chain" THEN {<<i - 2>>, <<i - 1, i - 2>>} ELSE {})

RECURSIVE ParentMaps(_, _)
ParentMaps(kind, n) ==
    IF n = 0 THEN {<< >>}
    ELSE {Append(p, c) : p \in ParentMaps(kind, n - 1),
                         c \in ParentChoices(kind, n)}

Stores(kind, n, times) ==
    {[i \in 1..n |-> [parents |-> p[i], commit_time |-> t[i]]] :
        p \in ParentMaps(kind, n), t \in [1..n -> times]}

NoDiffs(n) == [i \in 1..n |-> << >>]

DefaultArgs ==
    [include |-> << >>, exclude |-> {}, order |-> ORDER_DATE,
     reverse |-> FALSE, max_entries |-> None, paths |-> {},
     rename_detector |-> None, follow |-> FALSE, since |-> None,
     until |-> None]

Start ==
    /\ pc = "start"
    /\ walker = NoWalker
    /\ queue = NoQueue
    /\ results = << >>
    /\ emitted = << >>
    /\ error = None
    /\ entries = << >>
    /\ hist = NoHist

Opt(S) == {None} \cup {Some(x) : x \in S}

\* the orders of two commits of equal commit time: both where the store
\* has such commits, one where it has none and the order is never asked for
TieChoices(s) ==
    IF \E i, j \in DOMAIN s : i # j /\ s[i].commit_time = s[j].commit_time
    THEN {"asc", "desc"}
    ELSE {"asc"}

\* arbitrary graphs and commit times, with seeds given twice, seeds that
\* are ancestors of seeds, an exclude seed and an upper time bound
InitGraph ==
    /\ store \in Stores("dag", NumCommits, 0..MaxTime)
    /\ diffs = NoDiffs(NumCommits)
    /\ tie \in TieChoices(store)
    /\ \/ \E exc \in {{}, {NumCommits - 1}} :
             args = [DefaultArgs EXCEPT !.include = <<NumCommits>>,
                                        !.exclude = exc]
       \/ args = [DefaultArgs EXCEPT
                    !.include = <<NumCommits, NumCommits - 1, NumCommits>>]
       \/ args = [DefaultArgs EXCEPT !.include = <<NumCommits>>,
                                     !.until = Some(1)]
    /\ Start

\* the commit times of the option stores: increasing from the roots,
\* decreasing from the roots, all equal
OptionTimes(n) ==
    {[i \in 1..n |-> IF i - 1 < MaxTime THEN i - 1 ELSE MaxTime],
     [i \in 1..n |-> IF n - i < MaxTime THEN n - i ELSE MaxTime],
     [i \in 1..n |-> 1]}

\* every combination of the options that need no diff, on fewer stores
InitOptions ==
    /\ \E p \in ParentMaps("broken", NumCommits),
          t \in OptionTimes(NumCommits) :
          store = [i \in 1..NumCommits |->
                     [parents |-> p[i], commit_time |-> t[i]]]
    /\ diffs = NoDiffs(NumCommits)
    /\ tie \in TieChoices(store)
    /\ \E s \in {[include |-> <<NumCommits>>, exclude |-> {}],
                  [include |-> <<NumCommits>>, exclude |-> {NumCommits - 1}],
                  [include |-> <<NumCommits>>, exclude |-> {MissingId}],
                  [include |-> <<NumCommits, NumCommits - 1>>, exclude |-> {}],
                  [include |-> <<NumCommits, MissingId>>, exclude |-> {}]},
          b \in {[since |-> None, until |-> None],
                 [since |-> Some(1), until |-> None],
                 [since |-> None, until |-> Some(1)]},
          max \in Opt(0..2), rev \in BOOLEAN :
          args = [DefaultArgs EXCEPT !.include = s.include,
                                     !.exclude = s.exclude,
                                     !.since = b.since, !.until = b.until,
                                     !.max_entries = max, !.reverse = rev]
    /\ Start

\* an order other than ORDER_DATE, with seeds the store contains or not
InitOrder ==
    /\ \E p \in ParentMaps("broken", NumCommits) :
          store = [i \in 1..NumCommits |->
                     [parents |-> p[i], commit_time |-> 1]]
    /\ diffs = NoDiffs(NumCommits)
    /\ tie = "asc"
    /\ \E inc \in {<<NumCommits>>, <<MissingId>>},
          exc \in {{}, {MissingId}} :
          args = [DefaultArgs EXCEPT !.include = inc, !.exclude = exc,
                                     !.order = "topo"]
    /\ Start

\* long histories around the since boundary: chains and roots, walked
\* from all their heads, every commit time below (0) or not below (1)
\* since = 1
BoundaryHeads(s) ==
    {i \in DOMAIN s : \A j \in DOMAIN s : i \notin Range(s[j].parents)}

InitBoundary ==
    /\ store \in Stores("chain", NumBoundaryCommits, {0, 1})
    /\ diffs = NoDiffs(NumBoundaryCommits)
    /\ tie \in {"asc", "desc"}
    /\ args = [DefaultArgs EXCEPT !.include = SetIter(BoundaryHeads(store)),
                                  !.since = Some(1)]
    /\ Start

\* paths: "a", "b", "ab" and "a/b"
Path_a == <<"a">>
Path_b == <<"b">>
Path_ab == <<"a", "b">>
Path_a_b == <<"a", "/", "b">>

Change(type, old, new) == [type |-> type, old |-> old, new |-> new]

\* what the diff engine may return for a commit with at most one parent
ChangeLists ==
    {<< >>,
     <<Change(CHANGE_MODIFY, Some(Path_b), Some(Path_b)),
       Change(CHANGE_MODIFY, Some(Path_a_b), Some(Path_a_b))>>,
     <<Change(CHANGE_ADD, None, Some(Path_ab))>>,
     <<Change(CHANGE_RENAME, Some(Path_b), Some(Path_a))>>,
     <<Change(CHANGE_COPY, Some(Path_b), Some(Path_a_b))>>,
     <<Change(CHANGE_DELETE, Some(Path_a), None)>>}

\* what it may return for one parent of a merge
MergeChangeLists ==
    {<< >>,
     <<Change(CHANGE_RENAME, Some(Path_b), Some(Path_a))>>,
     <<Change(CHANGE_COPY, Some(Path_b), Some(Path_a_b))>>,
     <<Change(CHANGE_ADD, None, Some(Path_ab)),
       Change(CHANGE_DELETE, Some(Path_a_b), None)>>}

\* and for a root commit, which is compared with the empty tree
RootChangeLists ==
    {<<Change(CHANGE_ADD, None, Some(Path_b))>>,
     <<Change(CHANGE_ADD, None, Some(Path_a_b))>>}

DiffChoices(parents) ==
    IF Len(parents) > 1
    THEN [1..Len(parents) -> MergeChangeLists]
    ELSE IF Len(parents) = 0
    THEN RootChangeLists
    ELSE ChangeLists

RECURSIVE DiffMaps(_, _)
DiffMaps(s, n) ==
    IF n = 0 THEN {<< >>}
    ELSE {Append(d, c) : d \in DiffMaps(s, n - 1),
                         c \in DiffChoices(s[n].parents)}

\* the options a path filter is combined with: none, an exclude seed, a
\* time bound, a cap, reverse, a cap and reverse
PathOptions ==
    LET plain == [exclude |-> {}, since |-> None, until |-> None,
                  max_entries |-> None, reverse |-> FALSE]
    IN  {plain,
         [plain EXCEPT !.exclude = {1}],
         [plain EXCEPT !.since = Some(2)],
         [plain EXCEPT !.until = Some(NumPathCommits - 1)],
         [plain EXCEPT !.max_entries = Some(1)],
         [plain EXCEPT !.reverse = TRUE],
         [plain EXCEPT !.max_entries = Some(1), !.reverse = TRUE]}

\* path filters, with and without follow, alone or with one of these
\* options, on a history that ends in a commit with one parent or in a
\* merge; commit i has commit time i
InitPaths ==
    /\ \E p3 \in {<<NumPathCommits - 1>>,
                   <<NumPathCommits - 1, NumPathCommits - 2>>} :
          store = [i \in 1..NumPathCommits |->
                     [parents |-> IF i = 1 THEN << >>
                                  ELSE IF i = NumPathCommits THEN p3
                                  ELSE <<i - 1>>,
                      commit_time |-> i]]
    /\ diffs \in DiffMaps(store, NumPathCommits)
    /\ tie = "asc"
    /\ \E paths \in {{Path_a}, {Path_b}, {Path_a, Path_ab}},
          follow \in BOOLEAN,
          f \in PathOptions :
          args = [DefaultArgs EXCEPT !.include = <<NumPathCommits>>,
                                     !.exclude = f.exclude,
                                     !.since = f.since, !.until = f.until,
                                     !.paths = paths, !.follow = follow,
                                     !.max_entries = f.max_entries,
                                     !.reverse = f.reverse]
    /\ Start

Init == InitGraph \/ InitOptions \/ InitOrder \/ InitBoundary \/ InitPaths

Spec == Init /\ [][Next]_vars

\* walks whose consumer asks the entries for their changes: with a path
\* filter, where the Walker has asked before, and without one, where every
\* diff is the empty list
InitEntries ==
    \/ /\ InitPaths
       /\ args.exclude = {} /\ args.since = None /\ args.until = None
       /\ args.max_entries = None /\ ~args.reverse
    \/ /\ store \in Stores("chain", NumCommits, {1})
       /\ diffs = NoDiffs(NumCommits)
       /\ tie = "asc"
       /\ \E rev \in BOOLEAN :
             args = [DefaultArgs EXCEPT !.include = <<NumCommits>>,
                                        !.reverse = rev]
       /\ Start

SpecEntries == InitEntries /\ [][NextEntries]_vars

----------------------------------------------------------------------------
(* Notions used by the properties.                                         *)

\* the commits reachable from a set of commits through parent edges
RECURSIVE Closure(_)
Closure(S) ==
    LET T == S \cup UNION {Range(store[c].parents) \cap DOMAIN store : c \in S}
    IN  IF T = S THEN S ELSE Closure(T)

\* the seeds the store contains and their ancestors
Ancestry(seeds) == Closure(seeds \cap DOMAIN store)

\* the first iteration of the Walker has ended, normally or by an exception
FirstEnded == hist.iters = 1 /\ pc \in {"exhausted", "raised"}

Emitted == Range(emitted)

\* the entries a first iteration over a Walker yields, in the order _next
\* returns them, and the exception that ends it, if one does
RECURSIVE Drain(_, _)
Drain(s, acc) ==
    LET r == _next(s)
    IN  IF r.err # None \/ r.entry = None
        THEN [entries |-> acc, err |-> r.err]
        ELSE Drain([w |-> r.w, q |-> r.q, h |-> r.h],
                   Append(acc, Val(r.entry)))

\* the same for a fresh Walker on the same store with arguments a
FreshWalk(a) ==
    LET n == NewWalker(a)
    IN  IF n.err # None
        THEN [entries |-> << >>, err |-> n.err]
        ELSE Drain([w |-> n.w, q |-> n.q, h |-> NoHist], << >>)

Min(a, b) == IF a <= b THEN a ELSE b

Prefix(s, n) == SubSeq(s, 1, n)

Suffix(s, n) == SubSeq(s, Len(s) - n + 1, Len(s))

\* the first identifier of a sequence that the store does not contain
FirstMissing(ids) ==
    LET I == {i \in 1..Len(ids) : ids[i] \notin DOMAIN store}
    IN  IF I = {} THEN None
        ELSE Some(ids[CHOOSE i \in I : \A j \in I : i <= j])

IsMissingCommitError(e, id) ==
    e # None /\ Val(e).type = "MissingCommitError" /\ Val(e).arg = id

\* the commits the queue has popped
Popped == {hist.pops[i].sha : i \in 1..Len(hist.pops)}

\* a fresh Walker with the same arguments but no cap
Uncapped == FreshWalk([args EXCEPT !.max_entries = None])

----------------------------------------------------------------------------
(* Properties.                                                             *)

\* C1: no commit identifier is emitted more than once, whatever the graph,
\* the commit times and the configuration, also when the commit is
\* reachable through several parent-child paths or is given twice as a seed.
NoCommitEmittedTwice ==
    \A i, j \in 1..Len(emitted) : i # j => emitted[i] # emitted[j]

\* an emitted commit is the parent of two emitted commits, or was given
\* twice as an include seed
SharedAncestorEmitted ==
    \E c \in Emitted :
        /\ Cardinality({j \in Emitted : c \in Range(store[j].parents)}) >= 2
        /\ \E d \in Emitted :
              Cardinality({i \in 1..Len(args.include) : args.include[i] = d}) = 2

\* C2: a commit that is an exclude seed or an ancestor of an exclude seed
\* is never emitted, even when it is also an include seed or an ancestor
\* of one, whatever the commit times.
ExcludedAncestryNeverEmitted ==
    Emitted \cap Ancestry(args.exclude) = {}

\* C3 as stated: with max_entries = N the walk emits the first min(N, M)
\* entries of what the same configuration emits with no cap (M entries),
\* in the same order.
CappedIsPrefixOfUncapped ==
    (FirstEnded /\ args.max_entries # None) =>
        LET out == IF ~args.reverse THEN Uncapped.entries
                   ELSE IF Uncapped.err = None
                   THEN Reversed(Uncapped.entries)
                   ELSE << >>
        IN  emitted = Prefix(out, Min(Val(args.max_entries), Len(out)))

\* C3 amended: with reverse off the walk emits the first min(N, M) entries
\* of the uncapped output, in the same order; with reverse on (and an
\* uncapped walk that ends without an exception) it emits the last
\* min(N, M) entries of the uncapped output.
CappedIsPrefixOrReversedPrefix ==
    (FirstEnded /\ args.max_entries # None) =>
        LET U == Uncapped
            k == Min(Val(args.max_entries), Len(U.entries))
        IN  /\ ~args.reverse => emitted = Prefix(U.entries, k)
            /\ (args.reverse /\ U.err = None) =>
                    emitted = Suffix(Reversed(U.entries), k)

\* a capped walk stopped by its cap, after an entry the acceptance filter
\* rejected, with more entries left
CapReachedAfterRejection ==
    /\ FirstEnded
    /\ args.max_entries # None
    /\ Val(args.max_entries) > 0
    /\ Len(emitted) = Val(args.max_entries)
    /\ Len(Uncapped.entries) > Len(emitted)
    /\ \E i \in 1..Len(hist.pops) :
          ~hist.pops[i].is_excluded /\ hist.pops[i].sha \notin Emitted

\* C4: once Walker._next has returned no entry (cap reached, frontier
\* empty, or the queue stopped by the since boundary), every later request,
\* also in a second iteration, returns no entry.
StaysExhausted ==
    [][hist.ended => walker'._num_entries = walker._num_entries]_vars

\* C5: with since = T the queue never processes more than
\* _MAX_EXTRA_COMMITS commits in a row whose commit time is below T: the
\* pop that brings the counter to zero stops the walk.
OverrunBounded ==
    args.since # None => hist.below_run <= _MAX_EXTRA_COMMITS

\* C6: in follow mode, a rename or copy record that matches a followed
\* path on its new side (equal to it, or a descendant of it) makes the
\* entry accepted and leaves the followed paths as the previous set
\* without the record's new path and with its old path.
FollowRewritesPaths ==
    \A i \in 1..Len(hist.follows) :
        LET f == hist.follows[i]
        IN  /\ f.err = None
            /\ f.ret
            /\ f.after = (f.before \ {Val(f.change.new)})
                            \cup {Val(f.change.old)}

\* C7: whenever the queue tries to enqueue an identifier the store does
\* not contain -- a seed at construction, or a parent of a popped commit
\* whose parents are enqueued -- a MissingCommitError reaches the caller.
MissingCommitRaised ==
    /\ LET m == FirstMissing(args.include \o SetIter(args.exclude))
       IN  (pc # "start" /\ args.order = ORDER_DATE /\ m # None) =>
              /\ walker = NoWalker
              /\ Len(hist.raised) = 1
              /\ hist.raised[1].at = 0
              /\ IsMissingCommitError(hist.raised[1].err, Val(m))
    /\ \A i \in 1..Len(hist.pops) :
          LET p == hist.pops[i]
              m == FirstMissing(store[p.sha].parents)
          IN  (m # None /\ ~(p.below /\ p.left = 0)) =>
                 \E k \in 1..Len(hist.raised) :
                    /\ hist.raised[k].at = i
                    /\ IsMissingCommitError(hist.raised[k].err, Val(m))

\* the parent of a popped commit was missing and the error reached the
\* caller
MissingParentRaised ==
    /\ pc = "raised"
    /\ Len(hist.pops) > 0
    /\ IsMissingCommitError(error, MissingId)

DiffOnlyWhenInspected ==
    \A i \in 1..Len(hist.diffed) :
        LET d == hist.diffed[i]
            t == store[d.sha].commit_time
        IN  /\ args.paths # {}
            /\ args.since # None => t >= Val(args.since)
            /\ args.until # None => t <= Val(args.until)
            /\ \E k \in 1..Len(hist.pops) :
                  hist.pops[k].sha = d.sha /\ ~hist.pops[k].is_excluded
            /\ args.max_entries # None =>
                  d.num_entries < Val(args.max_entries)

\* a walk with a path filter computed a diff for one commit and none for
\* another commit it popped
DiffSkippedForSomeCommit ==
    /\ pc = "exhausted"
    /\ Len(hist.diffed) > 0
    /\ \E c \in Popped :
          \A i \in 1..Len(hist.diffed) : hist.diffed[i].sha # c

NoOtherFilter ==
    /\ args.since = None
    /\ args.exclude = {}
    /\ args.paths = {}
    /\ args.max_entries = None
    /\ hist.raised = << >>

\* C10: every emitted commit has since <= commit time <= until for the
\* bounds that are set; and rejecting a commit above until does not stop
\* the traversal: where nothing else filters, every commit reachable from
\* the include seeds with commit time <= until is emitted.
EmittedWithinBounds ==
    /\ \A c \in Emitted :
          /\ args.since # None => store[c].commit_time >= Val(args.since)
          /\ args.until # None => store[c].commit_time <= Val(args.until)
    /\ (pc = "exhausted" /\ NoOtherFilter) =>
          Emitted = {c \in Ancestry(Range(args.include)) :
                        args.until # None =>
                            store[c].commit_time <= Val(args.until)}

\* a commit above until was popped and rejected, and a parent of it was
\* emitted
EmittedBelowRejected ==
    /\ pc = "exhausted"
    /\ NoOtherFilter
    /\ args.until # None
    /\ \E c \in Popped \ Emitted :
          /\ store[c].commit_time > Val(args.until)
          /\ Range(store[c].parents) \cap Emitted # {}

\* the paths of the model
AllPaths == {Path_a, Path_b, Path_ab, Path_a_b}

\* the commits for which the Walker asked for the changes
Diffed == {hist.diffed[i].sha : i \in 1..Len(hist.diffed)}

\* C11: a changed path matches the followed paths iff it is not None and
\* it equals some followed path p or begins with p immediately followed by
\* "/": "a/b" matches the followed path "a" but not "ab", and "ab" does
\* not match "a". Stated for the followed paths of every Walker with a path
\* filter and every path of the model.
PathMatchesIffEqualOrBelow ==
    /\ \A paths \in (IF walker # NoWalker /\ walker.paths # None
                     THEN {Val(walker.paths)} ELSE {}),
          cp \in Opt(AllPaths) :
          _path_matches(paths, cp) <=>
             /\ cp # None
             /\ \E p \in paths :
                   \/ Val(cp) = p
                   \/ /\ Len(Val(cp)) > Len(p)
                      /\ SubSeq(Val(cp), 1, Len(p) + 1) = p \o <<"/">>
    /\ _path_matches({Path_a}, Some(Path_a_b))
    /\ ~_path_matches({Path_ab}, Some(Path_a_b))
    /\ ~_path_matches({Path_a}, Some(Path_ab))

\* a walk that follows "a" alone inspected a commit that adds "ab" and did
\* not emit it, and emitted a commit that adds "a/b"
PrefixWithoutSeparatorRejected ==
    /\ pc = "exhausted"
    /\ args.paths = {Path_a} /\ ~args.follow
    /\ \E c \in Diffed \ Emitted :
          diffs[c] = <<Change(CHANGE_ADD, None, Some(Path_ab))>>
    /\ \E c \in Emitted :
          diffs[c] = <<Change(CHANGE_ADD, None, Some(Path_a_b))>>

\* the entries _next has returned in the current iteration
Accepted == Range(results)

\* some change record of some of the per-parent change sequences matches
\* a followed path on its new side or on its old side
SomeRecordMatches(paths, lists) ==
    \E k \in 1..Len(lists) : \E j \in 1..Len(lists[k]) :
        \/ _path_matches(paths, lists[k][j].new)
        \/ _path_matches(paths, lists[k][j].old)

\* C12: under a path filter, a merge commit that passes the time bounds is
\* accepted iff at least one change record in at least one of its
\* per-parent change sequences matches a followed path on its new side or
\* its old side.
MergeAcceptedIffSomeRecordMatches ==
    FirstEnded =>
        \A i \in 1..Len(hist.diffed) :
            LET d == hist.diffed[i]
            IN  Len(store[d.sha].parents) > 1 =>
                   (d.sha \in Accepted <=>
                       SomeRecordMatches(d.paths, diffs[d.sha]))

\* no parent has a later commit time than any of its children
ParentsNotLater ==
    \A c \in DOMAIN store :
        \A p \in Range(store[c].parents) \cap DOMAIN store :
            store[p].commit_time <= store[c].commit_time

NonIncreasing(seq) ==
    \A i \in 1..(Len(seq) - 1) :
        store[seq[i]].commit_time >= store[seq[i + 1]].commit_time

\* C13 as stated: when no parent has a later commit time than any of its
\* children, the sequence of emitted commits is non-increasing in commit
\* time.
EmittedNonIncreasing ==
    ParentsNotLater => NonIncreasing(emitted)

\* C13 amended: when no parent has a later commit time than any of its
\* children, the entries come out of _next in non-increasing order of
\* commit time; the emitted sequence is non-increasing with reverse off,
\* and with reverse on the sequence one iteration emits is non-decreasing.
EmittedMonotoneByDirection ==
    ParentsNotLater =>
        /\ NonIncreasing(results)
        /\ ~args.reverse => NonIncreasing(emitted)
        /\ (args.reverse /\ hist.iters <= 1) =>
                NonIncreasing(Reversed(emitted))

\* on such a store, a walk has emitted commits of different commit times,
\* from a frontier that held two commits of different commit times
EmittedAcrossTimes ==
    /\ ParentsNotLater
    /\ pc = "exhausted"
    /\ \E i, j \in 1..Len(emitted) :
          store[emitted[i]].commit_time # store[emitted[j]].commit_time
    /\ \E c \in DOMAIN store :
          /\ Len(store[c].parents) = 2
          /\ Range(store[c].parents) \subseteq Emitted
          /\ store[store[c].parents[1]].commit_time
                # store[store[c].parents[2]].commit_time

\* C14: constructing a Walker with an order other than ORDER_DATE fails
\* with a ValueError before any seed is looked up in the store or
\* enqueued, also when seeds are unknown to the store, and no entry is
\* ever emitted.
UnknownOrderRaisedFirst ==
    (args.order # ORDER_DATE /\ pc # "start") =>
        /\ pc = "raised"
        /\ error = Some([type |-> "ValueError", arg |-> args.order])
        /\ hist.raised = <<[err |-> error, at |-> 0]>>
        /\ walker = NoWalker
        /\ queue = NoQueue
        /\ hist.pops = << >>
        /\ emitted = << >>

\* the order was refused for a Walker whose include and exclude seeds are
\* unknown to the store
UnknownOrderWithUnknownSeeds ==
    /\ pc = "raised"
    /\ args.order # ORDER_DATE
    /\ MissingId \in Range(args.include)
    /\ MissingId \in args.exclude

\* C15: WalkEntry.changes() computes the diff at most once per entry: the
\* first call computes and stores the result, also when it is the empty
\* list, and every later call returns the stored value without running the
\* diff engine again.
ChangesComputedOnce ==
    \A c \in DOMAIN entries :
        LET e == entries[c]
        IN  /\ e.computed <= 1
            /\ e._changes # None =>
                  e.computed = 1 /\ e._changes = Some(diffs[c])
            /\ e.calls >= 1 =>
                  e._changes # None /\ e.returned = e._changes

\* changes() has been called twice on an entry whose diff is the empty
\* list
EmptyChangesAskedAgain ==
    \E c \in DOMAIN entries :
        /\ entries[c].calls >= 2
        /\ entries[c].computed = 1
        /\ diffs[c] = << >>

\* every seed and every parent is a commit of the store
AllPresent ==
    /\ Range(args.include) \cup args.exclude \subseteq DOMAIN store
    /\ \A c \in DOMAIN store : Range(store[c].parents) \subseteq DOMAIN store

\* C16: on a finite acyclic graph whose commits are all in the store, with
\* any configuration, a walk terminates and ends normally: no commit is
\* popped twice, and every call of _next by the iterator either reports
\* the end of the sequence or returns an entry after popping at least one
\* more commit; it never ends the walk with an error.
WalkReportsEnd ==
    [][(AllPresent /\ pc = "iterating") =>
          /\ \/ pc' = "exhausted"
             \/ pc' = "iterating" /\ Len(hist'.pops) > Len(hist.pops)
          /\ \A i, j \in 1..Len(hist'.pops) :
                i # j => hist'.pops[i].sha # hist'.pops[j].sha]_vars

\* C17: in every reachable state of the queue the heap holds each commit
\* identifier at most once, the membership set is exactly the set of
\* identifiers in the heap, and it is disjoint from the done set; a commit
\* marked done is never enqueued again, and the branch that discards an
\* already done commit after a pop is never taken.
QueueSetsConsistent ==
    queue # NoQueue =>
        /\ \A i, j \in 1..Len(queue.pq) : i # j => queue.pq[i] # queue.pq[j]
        /\ queue.pq_set = Range(queue.pq)
        /\ queue.pq_set \cap queue.done = {}
        /\ ~hist.redone

\* a commit was popped and its parents pushed when one of its parents was
\* already done
DoneParentPushed ==
    \E i, j \in 1..Len(hist.pops) :
        /\ i < j
        /\ hist.pops[i].sha \in Range(store[hist.pops[j].sha].parents)
        /\ ~(hist.pops[j].below /\ hist.pops[j].left = 0)
        /\ queue # NoQueue /\ queue.pq # << >>

\* every commit is strictly newer than each of its parents
StrictlyNewer ==
    \A c \in DOMAIN store :
        \A p \in Range(store[c].parents) \cap DOMAIN store :
            store[p].commit_time < store[c].commit_time

\* C18: when every commit is strictly newer than each of its parents and
\* no since, until, paths or max_entries is configured, a walk that ends
\* without an exception has emitted exactly the include seeds and their
\* ancestors minus the exclude seeds and their ancestors.
EmittedIsIncludeMinusExclude ==
    (/\ StrictlyNewer
     /\ args.since = None /\ args.until = None
     /\ args.paths = {} /\ args.max_entries = None
     /\ pc = "exhausted" /\ hist.raised = << >>) =>
        Emitted = Ancestry(Range(args.include)) \ Ancestry(args.exclude)

\* such a walk has emitted a commit and has left out an ancestor of an
\* exclude seed that is also an ancestor of an emitted commit
SharedAncestorLeftOut ==
    /\ StrictlyNewer
    /\ args.since = None /\ args.until = None
    /\ args.paths = {} /\ args.max_entries = None
    /\ pc = "exhausted" /\ hist.raised = << >>
    /\ \E c \in Ancestry(args.exclude) \ (args.exclude \cup Emitted) :
          \E e \in Emitted : c \in Range(store[e].parents)

\* since alone is configured
SinceAlone ==
    /\ args.since # None /\ args.until = None
    /\ args.exclude = {} /\ args.paths = {} /\ args.max_entries = None

\* C19: when no parent has a later commit time than any of its children,
\* the pruning at the since boundary loses nothing: with since = T and no
\* exclude, until, paths or max_entries, a walk that ends without an
\* exception has emitted exactly the commits reachable from the include
\* seeds whose commit time is >= T, which is what the per-entry since
\* filter alone would let through.
SinceLosesNothing ==
    (pc = "exhausted" /\ hist.raised = << >>
        /\ SinceAlone /\ ParentsNotLater) =>
        Emitted = {c \in Ancestry(Range(args.include)) :
                      store[c].commit_time >= Val(args.since)}

\* such a walk was stopped by the queue at the since boundary, with
\* commits emitted and commits left in the frontier
StoppedAtBoundary ==
    /\ ParentsNotLater /\ SinceAlone
    /\ pc = "exhausted" /\ hist.raised = << >>
    /\ hist.breaks # << >>
    /\ Emitted # {}
    /\ queue.pq # << >>

\* the exclude seeds, their ancestors, and the identifiers these name as
\* parents
ExcludeAncestry ==
    args.exclude \cup Ancestry(args.exclude)
        \cup UNION {Range(store[c].parents) : c \in Ancestry(args.exclude)}

\* C20: the exclusion set only grows, and every identifier in it is an
\* exclude seed or an ancestor of an exclude seed; a commit that is not
\* reachable from any exclude seed is never suppressed by exclusion when
\* it is popped.
ExclusionWithinAncestry ==
    [][/\ walker # NoWalker => walker.excluded \subseteq walker'.excluded
       /\ walker' # NoWalker =>
             /\ args.exclude \subseteq walker'.excluded
             /\ walker'.excluded \subseteq ExcludeAncestry
             /\ {hist'.pops[i].sha : i \in {k \in 1..Len(hist'.pops) :
                                               hist'.pops[k].is_excluded}}
                   \subseteq ExcludeAncestry]_vars

\* the exclusion set has grown beyond the exclude seeds, and a commit that
\* is not reachable from an exclude seed has been popped and emitted
ExclusionGrown ==
    /\ walker # NoWalker
    /\ walker.excluded # args.exclude
    /\ Emitted \ ExcludeAncestry # {}

====
